---- MODULE Spec2Model ----
(***************************************************************************)
(* Goal/progress reconciliation of the study scheduler (src/app.py):       *)
(* get_dashboard_data and get_training_details over the stored plan, the   *)
(* stored schedule and the per-category record databases of one date.      *)
(*                                                                         *)
(* Strings of the program are written in ASCII.  The Chinese literals of   *)
(* the source are named by their meaning: "review" is the goal type that   *)
(* contains the review marker, "verbal-verbal" the activity of the verbal  *)
(* comprehension session, and so on (see the operators below).             *)
(***************************************************************************)
EXTENDS Integers, Sequences, FiniteSets, TLC

\* ------------------------------------------------------------------ bounds
MaxGoals == 2
MaxItems == 2
MaxRecords == 2

\* ------------------------------------------------------------------- state
VARIABLES
    study_plan,       \* the StudyPlan row of the date (value: its goals)
    daily_schedule,   \* the DailySchedule row of the date (value: its items)
    database,         \* folder -> rows of analysis_result of the date
    response,         \* the response of the last reconciliation request, if no
                      \* write came after it
    in_flight,        \* the plan and schedule a running get_dashboard_data has
                      \* loaded (step 1), until it returns
    other_days,       \* date key -> the DailySchedule and StudyPlan rows of
                      \* the other date keys
    clock,            \* the wall clock, in seconds since 00:00 of day 0
    settings,         \* the AutomationSettings row
    queue,            \* the jobs of the RQ queue, in the order of enqueuing
    scheduler,        \* worker process -> its run_scheduler thread
    adjustment,       \* the chain of the AI adjustment job and its save job
    saving            \* request -> a running save_daily_schedule request

NoResponse == [op |-> "none"]

\* no get_dashboard_data is between its step 1 and its return
NotInFlight == [loaded |-> FALSE]

\* the state outside of the reconciliation of one date
background == <<other_days, clock, settings, queue, scheduler, adjustment, saving>>

vars == <<study_plan, daily_schedule, database, response, in_flight, background>>

\* ------------------------------------------------------- values and tables
\* query(...).first() returned None: no row for the date
NoRow(column) == [row |-> FALSE, value |-> <<>>]

Row(value) == [row |-> TRUE, value |-> value]

\* the list in the column of the row, [] when there is no row: the readers
\* test "plan and plan.goals" and "schedule and schedule.schedule_items"
Column(r) == IF r.row THEN r.value ELSE <<>>
None == "None"              \* Python None in a response
ValueError == -1            \* datetime.strptime raised ValueError

\* PracticeCategory values (models.py) and a custom goal type
VERBAL_COMPREHENSION == "VERBAL_COMPREHENSION"
QUANTITATIVE_RELATIONS == "QUANTITATIVE_RELATIONS"
MOCK_EXAM == "MOCK_EXAM"
REVIEW == "review"

\* CATEGORY_TO_FOLDER.values(): the folders the readers scan, in dict order
CATEGORY_TO_FOLDER == <<VERBAL_COMPREHENSION, QUANTITATIVE_RELATIONS>>

Folders == {CATEGORY_TO_FOLDER[i] : i \in 1..Len(CATEGORY_TO_FOLDER)}

\* a practice type that is no category, named in ASCII
ESSAY_WRITING == "essay writing"

\* secure_filename(name.replace(" ", "_")): the characters outside ASCII are
\* dropped, which leaves nothing of a Chinese name such as the review type
secure_filename(name) ==
    CASE name = ESSAY_WRITING -> "essay_writing"
      [] OTHER                -> ""

\* the folder of get_db_session for a practice type: VALUE_TO_FOLDER, or
\* the sanitized name of a type that is no category
FolderOf(category_str) ==
    IF category_str \in Folders THEN category_str ELSE secure_filename(category_str)

\* the folders of the database files save_analysis_to_db may write
DatabaseFolders == Folders \cup {FolderOf(REVIEW), FolderOf(ESSAY_WRITING)}

GoalTypes == {VERBAL_COMPREHENSION, REVIEW}

\* the static target_questions a stored goal may carry
TargetValues == {0, 3}

\* datetime.strptime(s, '%H:%M'): seconds since midnight, or ValueError
\* ("25:00" is not a time)
ParseHM(s) ==
    CASE s = "07:00" -> 25200
      [] s = "07:30" -> 27000
      [] s = "09:00" -> 32400
      [] s = "10:00" -> 36000
      [] s = "10:30" -> 37800
      [] s = "11:00" -> 39600
      [] s = "12:00" -> 43200
      [] s = "14:30" -> 52200
      [] s = "16:00" -> 57600
      [] s = "23:58" -> 86280
      [] OTHER       -> ValueError

\* rank of the string in Python's str ordering (the sort key of the items)
StrRankHM(s) ==
    CASE s = "07:00" -> 1
      [] s = "09:00" -> 2
      [] s = "10:00" -> 3
      [] s = "11:00" -> 4
      [] s = "14:30" -> 5
      [] s = "25:00" -> 6
      [] OTHER       -> 0

\* any(k in text for k in [...training keywords...]), for the activity and
\* details texts of the model: "special-special" (a free slot), "wake-up"
\* and "" contain no keyword
HasTrainingKeyword(text) ==
    text \in {"verbal-verbal", "review-mistakes", "data-data", "mock-mock",
              "MOCK_EXAM-mock", "-training",
              "verbal", "self-study", "special-training"}

\* subjects_to_review: canonical names of the subject keywords in the details
SubjectsToReview(details) ==
    IF details = "verbal" THEN {VERBAL_COMPREHENSION} ELSE {}

\* '复盘' in type or '错题' in type
IsReviewType(type) == type = REVIEW

\* record_time_str.replace('.', '-') then strptime with '%Y-%m-%d %H:%M:%S',
\* falling back to '%Y-%m-%d %H:%M': seconds since 00:00:00 of the date
ParseTimestamp(s) ==
    CASE s = "2025-09-12 09:00:00" -> 32400
      [] s = "2025.09.12 09:00"    -> 32400
      [] s = "2025-09-12 10:00:30" -> 36030
      [] OTHER                     -> ValueError

\* rank of the string in Python's str ordering ('-' sorts before '.')
StrRankTimestamp(s) ==
    CASE s = "2025-09-12 09:00:00" -> 1
      [] s = "2025-09-12 10:00:30" -> 2
      [] s = "2025.09.12 09:00"    -> 3
      [] s = "n/a"                 -> 4
      [] OTHER                     -> 0

\* dt_obj.strftime('%Y-%m-%d %H:%M:%S')
FormatTimestamp(t) ==
    CASE t = 32400 -> "2025-09-12 09:00:00"
      [] t = 36030 -> "2025-09-12 10:00:30"
      [] OTHER     -> "n/a"

Min(a, b) == IF a <= b THEN a ELSE b


\* ----------------------------------------------------------- pure helpers
\* Python sequence indexing seq[i], i from 0, negative i counting from the end
PyInRange(seq, i) == i < Len(seq) /\ i >= 0 - Len(seq)

PyAt(seq, i) == IF i >= 0 THEN seq[i + 1] ELSE seq[Len(seq) + i + 1]

RECURSIVE SumNat(_)
SumNat(nums) == IF nums = <<>> THEN 0 ELSE Head(nums) + SumNat(Tail(nums))

\* sum(F(x) for x in seq)
SumSeq(seq, F(_)) == SumNat([i \in 1..Len(seq) |-> F(seq[i])])

\* Python 3 round() of the quotient num/den (den > 0): half goes to even
PyRound(num, den) ==
    LET q == num \div den
        r == num % den
    IN  IF 2 * r < den THEN q
        ELSE IF 2 * r > den THEN q + 1
        ELSE IF q % 2 = 0 THEN q ELSE q + 1

\* list.sort(key=...) is stable: an element goes after all elements whose
\* key is not larger
RECURSIVE InsertSorted(_, _)
InsertSorted(sorted, x) ==
    IF sorted = <<>> THEN <<x>>
    ELSE IF Head(sorted).key <= x.key
         THEN <<Head(sorted)>> \o InsertSorted(Tail(sorted), x)
         ELSE <<x>> \o sorted

RECURSIVE SortKeyed(_)
SortKeyed(keyed) ==
    IF keyed = <<>> THEN <<>>
    ELSE InsertSorted(SortKeyed(SubSeq(keyed, 1, Len(keyed) - 1)), keyed[Len(keyed)])

SortedBy(seq, Key(_)) ==
    LET keyed == [i \in 1..Len(seq) |-> [key |-> Key(seq[i]), val |-> seq[i]]]
        sorted == SortKeyed(keyed)
    IN  [i \in 1..Len(seq) |-> sorted[i].val]

RECURSIVE Flatten(_)
Flatten(seqs) == IF seqs = <<>> THEN <<>> ELSE Head(seqs) \o Flatten(Tail(seqs))

\* --------------------------------------------------------- record readers
\* get_todays_full_records: the rows of every scanned folder's database of
\* the date, in folder order, then sorted by the submission_time string
get_todays_full_records(db) ==
    SortedBy(Flatten([i \in 1..Len(CATEGORY_TO_FOLDER) |-> db[CATEGORY_TO_FOLDER[i]]]),
             LAMBDA r : StrRankTimestamp(r.submission_time))

\* (variant: the scan stops after the first folder)
total_answered_first_folder(db) ==
    SumSeq(db[CATEGORY_TO_FOLDER[1]], LAMBDA r : r.questions_answered)

\* get_todays_answered_questions_summary, summed over its practice types:
\* sum(answered_by_category.values())
total_answered_today(db) ==
    SumSeq(Flatten([i \in 1..Len(CATEGORY_TO_FOLDER) |-> db[CATEGORY_TO_FOLDER[i]]]),
           LAMBDA r : r.questions_answered)

\* ------------------------------------------------------ schedule alignment
\* schedule.schedule_items.sort(key=lambda x: x.get('start_time', ''))
SortedItems(items) == SortedBy(items, LAMBDA it : StrRankHM(it.start_time))

\* the training items: sorted items whose activity has a training keyword
TrainingItems(items) ==
    SelectSeq(SortedItems(items), LAMBDA it : HasTrainingKeyword(it.activity))

\* ------------------------------------------------------ progress formatter
\* (variant: the percentage without the cap at 100)
PercentageUncapped(answered, target) ==
    IF target > 0 THEN PyRound(answered * 100, target)
    ELSE IF answered > 0 THEN 100
    ELSE 0

\* (variant: the quotient truncated instead of rounded)
PercentageTruncated(answered, target) ==
    IF target > 0 THEN Min(100, (answered * 100) \div target)
    ELSE IF answered > 0 THEN 100
    ELSE 0

\* percentage of one goal
Percentage(answered, target) ==
    IF target > 0 THEN Min(100, PyRound(answered * 100, target))
    ELSE IF answered > 0 THEN 100
    ELSE 0

\* --------------------------------------------------- get_training_details
\* the nearest earlier review-type goal: range(goal_id - 1, -1, -1) ... break
\* (below 0 when the loop ends without a break)
LastReviewIndex(goals, goal_id) ==
    LET earlier == {i \in 0..(goal_id - 1) : IsReviewType(goals[i + 1].type)}
    IN  IF earlier = {} THEN 0 - 1
        ELSE CHOOSE i \in earlier : \A j \in earlier : j <= i

\* last_review_end_time_str parsed: 00:00:00, or the end_time of the training
\* item aligned to the nearest earlier review goal
LastReviewEnd(goals, training_items, goal_id) ==
    LET i == LastReviewIndex(goals, goal_id)
    IN  IF i < 0 THEN 0
        ELSE IF i < Len(training_items) THEN ParseHM(training_items[i + 1].end_time)
        ELSE 0

\* the loop over all_records_full: the records counted into target_count.
\* processed holds the record ids counted so far in this call.
RECURSIVE ReviewLoop(_, _, _, _, _)
ReviewLoop(records, processed, lo, hi, subjects) ==
    IF records = <<>> THEN <<>>
    ELSE LET r == Head(records)
             t == ParseTimestamp(r.submission_time)
             counted == /\ r.id \notin processed
                        /\ r.submission_time # ""
                        /\ t # ValueError
                        /\ lo <= t /\ t < hi
                        /\ (subjects = {} \/ r.practice_type \in subjects)
         IN  IF counted
             THEN <<r>> \o ReviewLoop(Tail(records), processed \cup {r.id}, lo, hi, subjects)
             ELSE ReviewLoop(Tail(records), processed, lo, hi, subjects)

\* (variant: processed_record_ids is a module-level set, it still holds the
\* ids the preceding reconciliation request counted for the window)
ReviewCountedKeepingIds(records, lo, hi, subjects) ==
    LET counted == ReviewLoop(records, {}, lo, hi, subjects)
        kept == IF response.op = "none" THEN {}
                ELSE {counted[k].id : k \in 1..Len(counted)}
    IN  ReviewLoop(records, kept, lo, hi, subjects)

\* processed_record_ids = set() at the start of each call
ReviewCounted(records, lo, hi, subjects) ==
    ReviewLoop(records, {}, lo, hi, subjects)

\* the review branch: the window, the records counted and target_count
ReviewTarget(goals, training_items, goal_id, db) ==
    LET item == PyAt(training_items, goal_id)
        lo == LastReviewEnd(goals, training_items, goal_id)
        hi == ParseHM(item.start_time)
        counted == ReviewCounted(get_todays_full_records(db), lo, hi,
                                 SubjectsToReview(item.details))
    IN  [raised |-> lo = ValueError \/ hi = ValueError,
         lo |-> lo, hi |-> hi,
         counted |-> counted,
         target_count |-> SumSeq(counted,
                            LAMBDA r : r.incorrect_answers + r.unanswered_questions)]

\* (variant: a record whose time cannot be parsed is counted as well)
AnsweredInWindowUnparsed(records, type, start_dt, end_dt) ==
    SumSeq(records,
           LAMBDA r : IF /\ r.practice_type = type
                         /\ r.submission_time # ""
                         /\ \/ ParseTimestamp(r.submission_time) = ValueError
                            \/ /\ start_dt <= ParseTimestamp(r.submission_time)
                               /\ ParseTimestamp(r.submission_time) <= end_dt
                      THEN r.questions_answered ELSE 0)

\* answered_for_this_goal: questions_answered of the records of the goal's
\* type whose parsed time lies in [start_dt, end_dt]
AnsweredInWindow(records, type, start_dt, end_dt) ==
    SumSeq(records,
           LAMBDA r : IF /\ r.practice_type = type
                         /\ r.submission_time # ""
                         /\ ParseTimestamp(r.submission_time) # ValueError
                         /\ start_dt <= ParseTimestamp(r.submission_time)
                         /\ ParseTimestamp(r.submission_time) <= end_dt
                      THEN r.questions_answered ELSE 0)

HasRows(x) == x # <<>>

\* end_time_str = "... {end_time}:59" parsed with seconds
DetailsEndSeconds(end_time) ==
    IF ParseHM(end_time) = ValueError THEN ValueError ELSE ParseHM(end_time) + 59

\* an uncaught ValueError of datetime.strptime: the request fails (500)
Raised == [status |-> 500]

\* an uncaught IndexError of a list index out of range: the request fails
RaisedIndexError == [status |-> 500, exception |-> "IndexError"]

get_training_details(plan, schedule, db, goal_id) ==
    IF ~HasRows(plan) \/ goal_id >= Len(plan) THEN [status |-> 404]
    ELSE IF ~PyInRange(plan, goal_id) THEN RaisedIndexError
    ELSE
    LET goal == PyAt(plan, goal_id)
        training_items == IF HasRows(schedule) THEN TrainingItems(schedule) ELSE <<>>
        aligned == HasRows(schedule) /\ goal_id < Len(training_items)
    IN  IF aligned /\ ~PyInRange(training_items, goal_id) THEN RaisedIndexError
        ELSE
        LET is_review == IsReviewType(goal.type) /\ aligned
            review == ReviewTarget(plan, training_items, goal_id, db)
            target_questions == IF is_review THEN review.target_count
                                ELSE goal.target_questions
            item == PyAt(training_items, goal_id)
            start_dt == ParseHM(item.start_time)
            end_dt == DetailsEndSeconds(item.end_time)
            answered == IF aligned
                        THEN AnsweredInWindow(get_todays_full_records(db), goal.type,
                                              start_dt, end_dt)
                        ELSE 0
        IN  IF is_review /\ review.raised THEN Raised
            ELSE IF aligned /\ (start_dt = ValueError \/ end_dt = ValueError) THEN Raised
            ELSE [status |-> 200,
                  goal |-> [goal EXCEPT !.target_questions = target_questions],
                  progress |-> [answered_questions |-> answered,
                                percentage |-> Percentage(answered, target_questions)]]

\* ----------------------------------------------------- get_dashboard_data
Absent == "absent"          \* the key is not in the dict

\* step 3: plan.goals after the dynamic update of the aligned review goals.
\* plan and schedule are the objects loaded in step 1; the nested call of
\* get_training_details queries the central database again and works on the
\* rows it holds then (central_plan, central_schedule).
DynamicGoalsOver(plan, schedule, central_plan, central_schedule, db) ==
    IF ~(HasRows(plan) /\ HasRows(schedule)) THEN plan
    ELSE LET training_items == TrainingItems(schedule)
         IN  [i \in 1..Len(plan) |->
                IF i - 1 < Len(training_items) /\ IsReviewType(plan[i].type)
                THEN LET details == get_training_details(central_plan, central_schedule,
                                                         db, i - 1)
                     IN  [plan[i] EXCEPT !.target_questions =
                            IF details.status = 200
                            THEN details.goal.target_questions ELSE 0]
                ELSE plan[i]]

\* step 3 raises when the call of get_training_details raises
DynamicGoalsOverRaised(plan, schedule, central_plan, central_schedule, db) ==
    /\ HasRows(plan) /\ HasRows(schedule)
    /\ \E i \in 1..Len(plan) :
          /\ i - 1 < Len(TrainingItems(schedule))
          /\ IsReviewType(plan[i].type)
          /\ get_training_details(central_plan, central_schedule, db, i - 1).status = 500

\* step 3 when no write comes between step 1 and the nested calls
DynamicGoals(plan, schedule, db) == DynamicGoalsOver(plan, schedule, plan, schedule, db)

DynamicGoalsRaised(plan, schedule, db) ==
    DynamicGoalsOverRaised(plan, schedule, plan, schedule, db)

\* end_time_dt = strptime(f"{date_str} {end_time}", '%Y-%m-%d %H:%M')
DashboardEndSeconds(end_time) == ParseHM(end_time)

\* (variant: a goal without an aligned item takes the records of its type
\* of the whole day)
GoalProgressWholeDay(goals, training_items, records, i) ==
    LET goal == goals[i + 1]
        aligned == i < Len(training_items)
        item == training_items[i + 1]
        answered == IF aligned
                    THEN AnsweredInWindow(records, goal.type, ParseHM(item.start_time),
                                          ParseHM(item.end_time))
                    ELSE AnsweredInWindow(records, goal.type, 0, 86399)
    IN  [id |-> i,
         type |-> goal.type,
         target_questions |-> goal.target_questions,
         answered_questions |-> answered,
         percentage |-> Percentage(answered, goal.target_questions),
         start_time |-> IF aligned THEN item.start_time ELSE None,
         end_time |-> IF aligned THEN item.end_time ELSE None]

\* step 4, one goal of the time-aware branch
GoalProgress(goals, training_items, records, i) ==
    LET goal == goals[i + 1]
        aligned == i < Len(training_items)
        item == training_items[i + 1]
        start_dt == ParseHM(item.start_time)
        end_dt == DashboardEndSeconds(item.end_time)
        answered == IF aligned
                    THEN AnsweredInWindow(records, goal.type, start_dt, end_dt)
                    ELSE 0
    IN  [id |-> i,
         type |-> goal.type,
         target_questions |-> goal.target_questions,
         answered_questions |-> answered,
         percentage |-> Percentage(answered, goal.target_questions),
         start_time |-> IF aligned THEN item.start_time ELSE None,
         end_time |-> IF aligned THEN item.end_time ELSE None]

\* step 4 raises on a schedule time strptime does not accept
GoalProgressRaised(training_items, i) ==
    /\ i < Len(training_items)
    /\ \/ ParseHM(training_items[i + 1].start_time) = ValueError
       \/ DashboardEndSeconds(training_items[i + 1].end_time) = ValueError

\* the fallback branch: a plan without schedule items
FallbackProgress(goals, i) ==
    [id |-> i,
     type |-> goals[i + 1].type,
     target_questions |-> goals[i + 1].target_questions,
     answered_questions |-> 0,
     percentage |-> 0,
     start_time |-> Absent,
     end_time |-> Absent]

\* (variant: the total of the day without the cap per goal)
progress_total_answered_raw(goals_progress) ==
    SumSeq(goals_progress, LAMBDA g : g.answered_questions)

\* step 5: the capped total of the day
progress_total_answered(goals_progress) ==
    SumSeq(goals_progress, LAMBDA g : Min(g.answered_questions, g.target_questions))

\* completion_percentage
CompletionPercentage(capped, total_target, total_answered) ==
    IF total_target > 0 THEN Min(100, PyRound(capped * 100, total_target))
    ELSE IF total_answered > 0 THEN 100
    ELSE 0

\* get_dashboard_data from step 2 on: plan and schedule as loaded in step 1,
\* central_plan and central_schedule as stored when the nested calls run
DashboardData(plan, schedule, central_plan, central_schedule, db) ==
    LET goals == DynamicGoalsOver(plan, schedule, central_plan, central_schedule, db)
        time_aware == HasRows(plan) /\ HasRows(schedule)
        training_items == IF HasRows(schedule) THEN TrainingItems(schedule) ELSE <<>>
        records == get_todays_full_records(db)
        goals_progress ==
            IF time_aware
            THEN [i \in 1..Len(goals) |-> GoalProgress(goals, training_items, records, i - 1)]
            ELSE IF HasRows(plan)
            THEN [i \in 1..Len(goals) |-> FallbackProgress(goals, i - 1)]
            ELSE <<>>
        total_target == IF HasRows(plan)
                        THEN SumSeq(goals, LAMBDA g : g.target_questions)
                        ELSE 0
        total_answered == total_answered_today(db)
    IN  IF DynamicGoalsOverRaised(plan, schedule, central_plan, central_schedule, db)
        THEN Raised
        ELSE IF time_aware /\ \E i \in 0..(Len(goals) - 1) :
                                  GoalProgressRaised(training_items, i)
        THEN Raised
        ELSE [status |-> 200,
              total_answered |-> total_answered,
              total_target |-> total_target,
              percentage |-> CompletionPercentage(progress_total_answered(goals_progress),
                                                  total_target, total_answered),
              goals_progress |-> goals_progress]

\* get_dashboard_data when no write comes while it runs
get_dashboard_data(plan, schedule, db) == DashboardData(plan, schedule, plan, schedule, db)

\* ------------------------------------------- _synchronize_plan_from_schedule
\* activity.split('-', 1)[0].strip(): the name before the first '-'
ActivityPrefix(activity) ==
    CASE activity = "verbal-verbal"   -> "verbal"
      [] activity = "review-mistakes" -> REVIEW
      [] activity = "data-data"       -> "DATA_ANALYSIS"
      [] activity = "mock-mock"       -> "mock"
      [] activity = "MOCK_EXAM-mock"  -> MOCK_EXAM
      [] activity = "-training"       -> ""
      [] OTHER                        -> "special"

\* name_to_canonical.get(training_type, training_type), then the mock exam
\* fallback (MOCK_EXAM.value in training_type)
NameToCanonical(training_type) ==
    CASE training_type = "verbal" -> VERBAL_COMPREHENSION
      [] training_type = "mock"   -> MOCK_EXAM
      [] OTHER                    -> training_type

TrainingType(activity) == NameToCanonical(ActivityPrefix(activity))

\* final_goals: one goal per sorted item whose activity has a training
\* keyword and a non-empty name before the '-'
SynchronizedGoals(schedule_items) ==
    LET training == SelectSeq(TrainingItems(schedule_items),
                              LAMBDA it : ActivityPrefix(it.activity) # "")
    IN  [i \in 1..Len(training) |->
            [type |-> TrainingType(training[i].activity),
             target_questions |-> 20]]

\* ------------------------------------------------------------------ inputs
\* goals a save_plan request may carry
GoalInputs == [type : GoalTypes, target_questions : TargetValues]

\* schedule items a save_daily_schedule request may carry
ScheduleItemInputs ==
    {[start_time |-> "09:00", end_time |-> "10:00", activity |-> "verbal-verbal", details |-> ""],
     [start_time |-> "09:00", end_time |-> "10:00", activity |-> "special-special", details |-> ""],
     [start_time |-> "09:00", end_time |-> "09:00", activity |-> "review-mistakes", details |-> ""],
     [start_time |-> "10:00", end_time |-> "09:00", activity |-> "review-mistakes", details |-> ""],
     [start_time |-> "10:00", end_time |-> "09:00", activity |-> "review-mistakes", details |-> "verbal"],
     [start_time |-> "11:00", end_time |-> "25:00", activity |-> "verbal-verbal", details |-> ""]}

\* the AI's submission_timestamp of an analysed report
TimestampInputs ==
    {"USE_CURRENT_TIME", "2025.09.12 09:00", "2025-09-12 10:00:30", "n/a"}

\* datetime.now() while the date is current
ClockValues == {36030}

\* performance_summary of an analysed report
SummaryInputs ==
    {[correct_answers |-> 1, incorrect_answers |-> 1, unanswered_questions |-> 1]}

\* goal_id of a get_training_details request: int(goal_id_str), any integer
GoalIdInputs == (0 - 1)..MaxGoals

SeqsUpTo(S, n) == UNION {[1..k -> S] : k \in 1..n}

\* --------------------------------------------- the state outside one date
\* the other date keys an AI result may carry: a Saturday, and a key that is
\* not a date
OtherDateKeys == {"2025-09-13", "tomorrow"}

NoRows ==
    [d \in OtherDateKeys |-> [daily_schedule |-> NoRow("schedule_items"),
                              study_plan |-> NoRow("goals")]]

\* the task keys of schedule_automated_tasks, in the order of its checks
Tasks == <<"comprehensive_analysis", "data_analysis", "daily_plan">>

TaskKeys == {Tasks[i] : i \in 1..Len(Tasks)}

\* the worker processes (worker.py), each with its scheduler thread
Processes == {"worker-1", "worker-2"}

SecondsPerDay == 24 * 3600

\* the clock of the model runs over the last minutes of day 0
WatchStart == 23 * 3600 + 56 * 60

WatchEnd == SecondsPerDay - 30

\* the column defaults of AutomationSettings (models.py)
DefaultSettings ==
    [row |-> TRUE,
     enabled |-> [t \in TaskKeys |-> FALSE],
     execution_time |-> [t \in TaskKeys |-> IF t = "daily_plan" THEN "23:00" ELSE "22:00"],
     last_run |-> <<>>]

\* a scheduler thread in time.sleep, to wake at wake_at
Sleeping(wake_at) ==
    [pc |-> "sleeping", wake_at |-> wake_at, at |-> 0, task |-> 0,
     last_run |-> <<>>, expired |-> FALSE]

\* no chain of adjustment job and save job is enqueued
NoAdjustment ==
    [pc |-> "none", is_automated |-> FALSE, attempt |-> 0, succeeded |-> FALSE,
     parsed |-> FALSE, outcome |-> "none", result |-> [kind |-> "none"],
     saved |-> "none"]

\* the two save_daily_schedule requests that may run at the same time
Requests == {"request-1", "request-2"}

\* no request is running on the connection
NoRequest ==
    [pc |-> "none", schedule_items |-> <<>>, schedule |-> NoRow("schedule_items"),
     plan |-> NoRow("goals"), in_transaction |-> FALSE, status |-> 0]

\* ----------------------------------------------------------- initial state
NumRecords == SumNat([i \in 1..Len(CATEGORY_TO_FOLDER) |-> Len(database[CATEGORY_TO_FOLDER[i]])])

Init ==
    /\ study_plan = NoRow("goals")
    /\ daily_schedule = NoRow("schedule_items")
    /\ database = [f \in DatabaseFolders |-> <<>>]
    /\ response = NoResponse
    /\ in_flight = NotInFlight
    /\ other_days = NoRows
    /\ clock = WatchStart
    /\ settings = DefaultSettings
    /\ queue = <<>>
    /\ scheduler = [p \in Processes |-> Sleeping(WatchStart)]
    /\ adjustment = NoAdjustment
    /\ saving = [r \in Requests |-> NoRequest]

\* ----------------------------------------------------------------- writers
\* POST /save_plan
save_plan ==
    \E goals \in SeqsUpTo(GoalInputs, MaxGoals) :
        /\ study_plan' = Row(goals)
        /\ response' = NoResponse
        /\ UNCHANGED <<daily_schedule, database, in_flight, background>>

\* the date of the model: datetime.strptime(schedule_date, '%Y-%m-%d')
schedule_date == "2025-09-12"

\* date_obj.weekday(): Monday is 0, Sunday is 6 (2025-09-12 is a Friday)
PyWeekday(date_str) ==
    CASE date_str = "2025-09-12" -> 4
      [] date_str = "2025-09-13" -> 5
      [] OTHER                   -> 0

\* PracticeCategory.MOCK_EXAM.value in activity
ContainsMockExamValue(activity) == activity = "MOCK_EXAM-mock"

\* the weekend-only validation refuses the items
MockExamRefused(date_str, items) ==
    /\ ~(PyWeekday(date_str) >= 5)
    /\ \E k \in 1..Len(items) : ContainsMockExamValue(items[k].activity)

\* POST /save_daily_schedule with one request body: the row gets the items as
\* sent (the flush comes before the in-place sort), the plan is synchronized
\* from them; a refused request (400) writes nothing
SaveDailySchedule(schedule_items) ==
    IF MockExamRefused(schedule_date, schedule_items)
    THEN UNCHANGED vars
    ELSE /\ daily_schedule' = Row(schedule_items)
         /\ study_plan' = Row(SynchronizedGoals(schedule_items))
         /\ response' = NoResponse
         /\ UNCHANGED <<database, in_flight, background>>

save_daily_schedule ==
    \E schedule_items \in SeqsUpTo(ScheduleItemInputs, MaxItems) :
        SaveDailySchedule(schedule_items)

\* the submission_time save_analysis_to_db stores
StoredSubmissionTime(submission_timestamp_str, now) ==
    IF submission_timestamp_str = "USE_CURRENT_TIME" \/ submission_timestamp_str = ""
    THEN FormatTimestamp(now)
    ELSE IF ParseTimestamp(submission_timestamp_str) = ValueError
    THEN FormatTimestamp(now)
    ELSE FormatTimestamp(ParseTimestamp(submission_timestamp_str))

\* save_analysis_to_db of one analysed report: one new row in the database
\* of the practice type
SaveAnalysisToDb(practice_type, ts, now, summary) ==
    /\ database' = [database EXCEPT ![FolderOf(practice_type)] = Append(@,
          [id |-> Len(@) + 1,
           practice_type |-> practice_type,
           submission_time |-> StoredSubmissionTime(ts, now),
           questions_answered |-> summary.correct_answers + summary.incorrect_answers,
           incorrect_answers |-> summary.incorrect_answers,
           unanswered_questions |-> summary.unanswered_questions])]
    /\ response' = NoResponse
    /\ UNCHANGED <<study_plan, daily_schedule, in_flight, background>>

save_analysis_to_db ==
    \E practice_type \in Folders, ts \in TimestampInputs,
       now \in ClockValues, summary \in SummaryInputs :
        /\ NumRecords < MaxRecords
        /\ SaveAnalysisToDb(practice_type, ts, now, summary)

\* ----------------------------------------------------------------- readers
\* (variant: the reader commits the objects it loaded and changed)
CentralAfterReadCommitted(stored, loaded) == loaded

\* what the central database holds after a reader's session: the session is
\* closed without a commit, the loaded and mutated objects are dropped
CentralAfterRead(stored, loaded) == stored

\* GET /get_dashboard_data
GetDashboardData ==
    LET plan == Column(study_plan)
        schedule == Column(daily_schedule)
    IN  /\ response' = [op |-> "get_dashboard_data",
                        body |-> get_dashboard_data(plan, schedule, database)]
        /\ study_plan' = CentralAfterRead(study_plan,
                            [study_plan EXCEPT !.value = DynamicGoals(plan, schedule, database)])
        /\ daily_schedule' = CentralAfterRead(daily_schedule,
                            [daily_schedule EXCEPT !.value = SortedItems(schedule)])
        /\ UNCHANGED <<database, in_flight, background>>

\* GET /get_training_details?goal_id=...
GetTrainingDetails ==
    \E goal_id \in GoalIdInputs :
        LET plan == Column(study_plan)
            schedule == Column(daily_schedule)
        IN  /\ response' = [op |-> "get_training_details", goal_id |-> goal_id,
                            body |-> get_training_details(plan, schedule, database, goal_id)]
            /\ study_plan' = CentralAfterRead(study_plan, study_plan)
            /\ daily_schedule' = CentralAfterRead(daily_schedule,
                                [daily_schedule EXCEPT !.value = SortedItems(schedule)])
            /\ UNCHANGED <<database, in_flight, background>>

Next ==
    \/ save_plan
    \/ save_daily_schedule
    \/ save_analysis_to_db
    \/ GetDashboardData
    \/ GetTrainingDetails

Spec == Init /\ [][Next]_vars

\* ------------------------------------------------------- edited records
\* POST /api/db/update_row on the database file of a folder:
\* UPDATE analysis_result SET column = value WHERE id = pk_value
UpdateDbRow(folder, pk_value, column, value) ==
    LET rows == database[folder]
    IN  /\ database' = [database EXCEPT ![folder] =
              [k \in 1..Len(rows) |->
                  IF rows[k].id = pk_value THEN [rows[k] EXCEPT ![column] = value]
                  ELSE rows[k]]]
        /\ response' = NoResponse
        /\ UNCHANGED <<study_plan, daily_schedule, in_flight, background>>

\* submission_time values a row is edited to: not a timestamp, and a
\* timestamp with '.' separators and without seconds
EditedTimeInputs == {"n/a", "2025.09.12 09:00"}

\* unanswered_questions values a row is edited to
EditedCountInputs == {2}

update_db_row ==
    \E folder \in Folders, pk_value \in 1..MaxRecords :
        \/ \E value \in EditedTimeInputs :
              UpdateDbRow(folder, pk_value, "submission_time", value)
        \/ \E value \in EditedCountInputs :
              UpdateDbRow(folder, pk_value, "unanswered_questions", value)

\* the schedule items of a day with one training session and one review
ReviewDayItemInputs ==
    {[start_time |-> "09:00", end_time |-> "10:00", activity |-> "verbal-verbal", details |-> ""],
     [start_time |-> "10:00", end_time |-> "09:00", activity |-> "review-mistakes", details |-> ""]}

SaveReviewDaySchedule ==
    \E schedule_items \in SeqsUpTo(ReviewDayItemInputs, MaxItems) :
        SaveDailySchedule(schedule_items)

NextRecords ==
    \/ SaveReviewDaySchedule
    \/ save_analysis_to_db
    \/ update_db_row
    \/ GetDashboardData
    \/ GetTrainingDetails

\* reconciliation over rows that were saved and then edited
SpecRecords == Init /\ [][NextRecords]_vars

\* ---------------------------------------------- schedules and their plans
\* default_schedule_items of get_daily_schedule
default_schedule_items ==
    <<[start_time |-> "07:00", end_time |-> "07:30", activity |-> "special-special", details |-> "wake-up"],
      [start_time |-> "09:00", end_time |-> "10:30", activity |-> "data-data", details |-> "special-training"],
      [start_time |-> "11:00", end_time |-> "12:00", activity |-> "verbal-verbal", details |-> "special-training"],
      [start_time |-> "14:30", end_time |-> "16:00", activity |-> "special-special", details |-> "self-study"]>>

\* generated_goals of get_daily_schedule: one goal per item, in list order,
\* whose details or activity has a training keyword; the type is the name
\* before the '-' as written
generated_goals(items) ==
    LET training == SelectSeq(items, LAMBDA it : \/ HasTrainingKeyword(it.details)
                                                 \/ HasTrainingKeyword(it.activity))
    IN  [i \in 1..Len(training) |->
            [type |-> ActivityPrefix(training[i].activity),
             target_questions |-> 20]]

\* (variant: the plan is generated also when the date has one)
PlanAfterDefaultRegenerated(plan) == Row(generated_goals(default_schedule_items))

\* the plan of the date after the default schedule was created: the stored
\* one, or without one the plan generated from the default schedule
PlanAfterDefault(plan) ==
    IF plan.row THEN plan ELSE Row(generated_goals(default_schedule_items))

\* GET /get_daily_schedule: returns the stored schedule, or creates the
\* default schedule and, if the date has no plan, a plan generated from it
get_daily_schedule ==
    /\ daily_schedule' = IF daily_schedule.row THEN daily_schedule
                         ELSE Row(default_schedule_items)
    /\ study_plan' = IF daily_schedule.row THEN study_plan
                     ELSE PlanAfterDefault(study_plan)
    /\ response' = [op |-> "get_daily_schedule",
                    body |-> [status |-> 200,
                              schedule_items |-> IF daily_schedule.row
                                                 THEN daily_schedule.value
                                                 ELSE default_schedule_items]]
    /\ UNCHANGED <<database, in_flight, background>>

\* datetime.strptime(date_str, '%Y-%m-%d') returns a date
IsDate(date_str) == date_str \in {"2025-09-12", "2025-09-13"}

\* the date keys of the central database
DateKeys == {schedule_date} \cup OtherDateKeys

\* query(DailySchedule).filter_by(schedule_date=date_str).first()
ScheduleOf(date_str) ==
    IF date_str = schedule_date THEN daily_schedule
    ELSE other_days[date_str].daily_schedule

\* query(StudyPlan).filter_by(plan_date=date_str).first()
PlanOf(date_str) ==
    IF date_str = schedule_date THEN study_plan
    ELSE other_days[date_str].study_plan

\* (variant: an error in the result is not looked at)
CarriesErrorIgnored(ai_result) == FALSE

\* "error" in ai_result
CarriesError(ai_result) == ai_result.error

\* the pre-save validation over the keys of updated_schedules: strptime
\* raises ValueError, or a weekday carries the mock exam
SaveRefused(ai_result) ==
    \E d \in DOMAIN ai_result.updated_schedules :
        \/ ~IsDate(d)
        \/ MockExamRefused(d, ai_result.updated_schedules[d])

\* the DailySchedule row of a date key after the commit
ScheduleAfterSave(ai_result, d) ==
    IF d \in DOMAIN ai_result.updated_schedules
    THEN Row(ai_result.updated_schedules[d])
    ELSE ScheduleOf(d)

\* the StudyPlan row of a date key after the commit: synchronized from the
\* new schedule, then overwritten by updated_goals
PlanAfterSave(ai_result, d) ==
    IF d \in DOMAIN ai_result.updated_goals
    THEN Row(ai_result.updated_goals[d])
    ELSE IF d \in DOMAIN ai_result.updated_schedules
    THEN Row(SynchronizedGoals(ai_result.updated_schedules[d]))
    ELSE PlanOf(d)

\* run_save_schedule_and_notify returns an error value
SaveFails(ai_result, committed) ==
    CarriesError(ai_result) \/ SaveRefused(ai_result) \/ ~committed

\* run_save_schedule_and_notify for one ai_result, its commit succeeding or
\* raising SQLAlchemyError: updated_schedules and updated_goals map date keys
\* to items and to goals
RunSaveScheduleAndNotify(ai_result, committed) ==
    IF SaveFails(ai_result, committed)
    THEN UNCHANGED <<daily_schedule, study_plan, other_days>>
    ELSE /\ daily_schedule' = ScheduleAfterSave(ai_result, schedule_date)
         /\ study_plan' = PlanAfterSave(ai_result, schedule_date)
         /\ other_days' = [d \in OtherDateKeys |->
                              [daily_schedule |-> ScheduleAfterSave(ai_result, d),
                               study_plan |-> PlanAfterSave(ai_result, d)]]

\* schedule items by the way they name their session: by the activity, by
\* the details only, without a name before the '-', as a mock exam by its
\* short name and by its full category name
NamedItemInputs ==
    {[start_time |-> "09:00", end_time |-> "10:00", activity |-> "verbal-verbal", details |-> ""],
     [start_time |-> "10:00", end_time |-> "11:00", activity |-> "special-special", details |-> "self-study"],
     [start_time |-> "09:00", end_time |-> "10:00", activity |-> "-training", details |-> ""],
     [start_time |-> "10:00", end_time |-> "11:00", activity |-> "mock-mock", details |-> ""],
     [start_time |-> "10:00", end_time |-> "11:00", activity |-> "MOCK_EXAM-mock", details |-> ""]}

\* goals an AI result may carry in updated_goals
AiGoalInputs ==
    {[type |-> VERBAL_COMPREHENSION, target_questions |-> 3],
     [type |-> MOCK_EXAM, target_questions |-> 20]}

\* ai_result of the adjustment job, with no entry or one entry for the date
\* of the model
AiResultInputs ==
    [error : BOOLEAN,
     updated_schedules : {<<>>} \cup {(schedule_date :> items) : items \in
                             {<<>>} \cup SeqsUpTo(NamedItemInputs, MaxItems)},
     updated_goals : {<<>>} \cup {(schedule_date :> goals) : goals \in
                             SeqsUpTo(AiGoalInputs, MaxGoals)}]

run_save_schedule_and_notify ==
    \E ai_result \in AiResultInputs, committed \in BOOLEAN :
        /\ RunSaveScheduleAndNotify(ai_result, committed)
        /\ response' = NoResponse
        /\ UNCHANGED <<database, in_flight, clock, settings, queue, scheduler,
                       adjustment, saving>>

SaveNamedSchedule ==
    \E schedule_items \in SeqsUpTo(NamedItemInputs, MaxItems) :
        SaveDailySchedule(schedule_items)

NextSchedule ==
    \/ get_daily_schedule
    \/ SaveNamedSchedule
    \/ run_save_schedule_and_notify

\* the writers of the schedule and of the plan generated from it
SpecSchedule == Init /\ [][NextSchedule]_vars

\* -------------------------------------- get_dashboard_data, step by step
\* step 1 of get_dashboard_data: the plan and the schedule of the date are
\* loaded and the session is closed
DashboardLoad ==
    /\ ~in_flight.loaded
    /\ in_flight' = [loaded |-> TRUE,
                     plan |-> Column(study_plan),
                     schedule |-> Column(daily_schedule)]
    /\ response' = NoResponse
    /\ UNCHANGED <<study_plan, daily_schedule, database, background>>

\* steps 2 to 5: the nested calls of get_training_details and the record
\* readers query the databases as they are now
DashboardReturn ==
    /\ in_flight.loaded
    /\ response' = [op |-> "get_dashboard_data",
                    body |-> DashboardData(in_flight.plan, in_flight.schedule,
                                           Column(study_plan), Column(daily_schedule),
                                           database)]
    /\ in_flight' = NotInFlight
    /\ UNCHANGED <<study_plan, daily_schedule, database, background>>

NextConcurrent ==
    \/ SaveReviewDaySchedule
    \/ save_analysis_to_db
    \/ DashboardLoad
    \/ DashboardReturn

\* get_dashboard_data running while writers commit
SpecConcurrent == Init /\ [][NextConcurrent]_vars

\* ------------------------------------- records of types outside the categories
\* the rows of all database files of the date
NumStoredRecords == NumRecords + Len(database[FolderOf(REVIEW)])
                               + Len(database[FolderOf(ESSAY_WRITING)])

\* the practice types of the uploads: a category, the review type and a
\* custom type
PracticeTypeInputs == {VERBAL_COMPREHENSION, REVIEW, ESSAY_WRITING}

\* save_analysis_to_db with the category of the upload request
SaveTypedAnalysis ==
    \E practice_type \in PracticeTypeInputs, ts \in TimestampInputs,
       now \in ClockValues, summary \in SummaryInputs :
        /\ NumStoredRecords < MaxRecords
        /\ SaveAnalysisToDb(practice_type, ts, now, summary)

NextTyped ==
    \/ SaveReviewDaySchedule
    \/ SaveTypedAnalysis
    \/ GetDashboardData
    \/ GetTrainingDetails

\* reconciliation over records of any practice type
SpecTyped == Init /\ [][NextTyped]_vars

\* ------------------------------------------------ the AI adjustment chain
\* retries of run_schedule_adjustment
retries == 3

\* (variant: the loop allows one attempt more)
LoopContinuesOnceMore(attempt) == attempt <= retries

\* for attempt in range(retries): after `attempt` failed attempts the loop
\* makes another one
LoopContinues(attempt) == attempt < retries

\* the schedules and goals an AI answer may carry for a date key
AdjustedItemInputs ==
    {<<[start_time |-> "09:00", end_time |-> "10:00", activity |-> "verbal-verbal", details |-> ""]>>,
     <<[start_time |-> "10:00", end_time |-> "11:00", activity |-> "MOCK_EXAM-mock", details |-> ""]>>}

AdjustedGoalInputs == {<<[type |-> VERBAL_COMPREHENSION, target_questions |-> 3]>>}

\* the dicts with keys among `keys` and values among `values`
MapsOver(keys, values) == UNION {[D -> values] : D \in SUBSET keys}

\* the JSON objects an AI answer may hold; an answer without entries stands
\* for an answer without the key
AiAnswerInputs ==
    [error : BOOLEAN,
     updated_schedules : MapsOver(DateKeys, AdjustedItemInputs),
     updated_goals : MapsOver({schedule_date, "tomorrow"}, AdjustedGoalInputs)]

\* {"error": ..., "details": ...}
ErrorValue == [error |-> TRUE, updated_schedules |-> <<>>, updated_goals |-> <<>>]

\* {"ai_result": ai_result, "start_date_str": ...}: the printed result of
\* the subprocess, packaged for the save job
Packaged(ai_result) == [kind |-> "ai_result", ai_result |-> ai_result]

\* the subprocess exited with status 1: the error JSON of its stderr
SubprocessFailed == [kind |-> "error"]

\* run_schedule_adjustment raises
Raised_(a) ==
    [a EXCEPT !.pc = "finished", !.outcome = "raised", !.result = SubprocessFailed]

\* run_schedule_adjustment returns value
Returned(a, value) ==
    [a EXCEPT !.pc = "finished", !.outcome = "returned", !.result = Packaged(value)]

\* a failure inside run_schedule_adjustment: raised again in an automated
\* run, returned as an error value in a manual run
Failed(a) == IF a.is_automated THEN Raised_(a) ELSE Returned(a, ErrorValue)

\* run_schedule_adjustment up to its AI call: the AI configuration is
\* complete, or incomplete
StartRun(a) == {[a EXCEPT !.pc = "calling"], Returned(a, ErrorValue)}

\* what the chain leaves alone
chain_frame == <<database, response, in_flight, clock, settings, queue, scheduler, saving>>

\* POST /adjust_schedule_with_ai: the adjustment job and the save job that
\* depends on it are enqueued
adjust_schedule_with_ai ==
    /\ adjustment.pc \in {"none", "saved"}
    /\ adjustment' = [NoAdjustment EXCEPT !.pc = "queued"]
    /\ UNCHANGED <<study_plan, daily_schedule, other_days, chain_frame>>

\* the adjustment job starts: task_runner.py runs run_schedule_adjustment
prepare_and_run_schedule_adjustment ==
    /\ adjustment.pc = "queued"
    /\ adjustment' \in StartRun(adjustment)
    /\ UNCHANGED <<study_plan, daily_schedule, other_days, chain_frame>>

\* the job of the automated daily plan starts: task_runner.py runs
\* run_schedule_adjustment with is_automated=True
run_automated_daily_plan ==
    /\ adjustment.pc \in {"none", "saved"}
    /\ adjustment' \in StartRun([NoAdjustment EXCEPT !.is_automated = TRUE])
    /\ UNCHANGED <<study_plan, daily_schedule, other_days, chain_frame>>

\* one pass of the loop around requests.post
HttpAttempt ==
    /\ adjustment.pc = "calling"
    /\ \E ok \in BOOLEAN :
          LET made == [adjustment EXCEPT !.attempt = @ + 1]
          IN  adjustment' =
                  IF ok THEN [made EXCEPT !.succeeded = TRUE, !.pc = "parsing"]
                  ELSE IF LoopContinues(made.attempt) THEN made
                  ELSE Failed(made)
    /\ UNCHANGED <<study_plan, daily_schedule, other_days, chain_frame>>

\* the response is parsed: no JSON object is found in it, or one is; an
\* automated run refuses an answer without updated_schedules
ParseResponse ==
    /\ adjustment.pc = "parsing"
    /\ LET read == [adjustment EXCEPT !.parsed = TRUE]
       IN  \/ adjustment' = Failed(read)
           \/ \E answer \in AiAnswerInputs :
                 adjustment' =
                     IF read.is_automated /\ DOMAIN answer.updated_schedules = {}
                     THEN Raised_(read)
                     ELSE Returned(read, answer)
    /\ UNCHANGED <<study_plan, daily_schedule, other_days, chain_frame>>

\* the result of the adjustment is saved, unless it is no ai_result
SaveAdjusted ==
    IF adjustment.result.kind # "ai_result"
    THEN /\ adjustment' = [adjustment EXCEPT !.pc = "saved", !.saved = "error"]
         /\ UNCHANGED <<study_plan, daily_schedule, other_days>>
    ELSE \E committed \in BOOLEAN :
            /\ RunSaveScheduleAndNotify(adjustment.result.ai_result, committed)
            /\ adjustment' = [adjustment EXCEPT
                    !.pc = "saved",
                    !.saved = IF SaveFails(adjustment.result.ai_result, committed)
                              THEN "error" ELSE "saved"]

\* the save job, run by the queue after the adjustment job has finished
save_adjusted_schedule_to_db ==
    /\ adjustment.pc = "finished"
    /\ ~adjustment.is_automated
    /\ SaveAdjusted
    /\ UNCHANGED chain_frame

\* main() of task_runner.py, task type automated_daily_plan, step 2
AutomatedDailyPlanSave ==
    /\ adjustment.pc = "finished"
    /\ adjustment.is_automated
    /\ SaveAdjusted
    /\ UNCHANGED chain_frame

NextAdjustment ==
    \/ adjust_schedule_with_ai
    \/ prepare_and_run_schedule_adjustment
    \/ run_automated_daily_plan
    \/ HttpAttempt
    \/ ParseResponse
    \/ save_adjusted_schedule_to_db
    \/ AutomatedDailyPlanSave

\* the adjustment of the schedules of several dates by the AI
SpecAdjustment == Init /\ [][NextAdjustment]_vars

\* ------------------------------------------- the automated tasks (jobs.py)
\* now.date(), now.hour and now.minute of a clock value
DateOf(t) == t \div SecondsPerDay

HourOf(t) == (t % SecondsPerDay) \div 3600

MinuteOf(t) == (t % 3600) \div 60

\* should_run of schedule_automated_tasks, for a pass whose now is `at`
should_run(task_key, enabled, exec_time_str, last_run_times, at) ==
    IF ~enabled \/ exec_time_str = "" THEN FALSE
    ELSE IF /\ task_key \in DOMAIN last_run_times
            /\ DateOf(last_run_times[task_key]) = DateOf(at) THEN FALSE
    ELSE IF ParseHM(exec_time_str) = ValueError THEN FALSE
    ELSE /\ HourOf(at) = HourOf(ParseHM(exec_time_str))
         /\ MinuteOf(at) = MinuteOf(ParseHM(exec_time_str))

\* time.sleep(60) of run_scheduler
SleepSeconds == 60

\* the step of the clock, and the longest time a pass takes
TickSeconds == SleepSeconds \div 2

MaxPassSeconds == TickSeconds

\* q.enqueue(func, ..., retry=Retry(max=...)): a job of the queue
Job(func, task_key, max_retries) ==
    [func |-> func, task |-> task_key, enqueued_at |-> clock, status |-> "queued",
     retries_left |-> max_retries, runs |-> 0, result |-> "none"]

\* the jobs the scheduler enqueues for a task
EnqueuedJobs(task_key) ==
    IF task_key = "daily_plan"
    THEN <<Job("prepare_and_run_schedule_adjustment", task_key, 3),
           Job("save_adjusted_schedule_to_db", task_key, 1)>>
    ELSE <<Job("run_task_in_subprocess", task_key, 3)>>

\* the pass goes on to the next task, or ends and the thread sleeps
NextTask(thread) ==
    IF thread.task < Len(Tasks)
    THEN [thread EXCEPT !.pc = "checking", !.task = @ + 1]
    ELSE Sleeping(clock + SleepSeconds)

\* schedule_automated_tasks, the query: the settings row is loaded and now
\* is read; without a row the pass returns
SchedulerQuery ==
    \E p \in Processes :
        /\ scheduler[p].pc = "sleeping"
        /\ clock >= scheduler[p].wake_at
        /\ scheduler' = [scheduler EXCEPT ![p] =
              IF settings.row
              THEN [pc |-> "checking", wake_at |-> @.wake_at, at |-> clock, task |-> 1,
                    last_run |-> settings.last_run, expired |-> FALSE]
              ELSE Sleeping(clock + SleepSeconds)]
        /\ UNCHANGED <<study_plan, daily_schedule, database, response, in_flight,
                       other_days, clock, settings, queue, adjustment, saving>>

\* should_run for the next task key: the row is read as loaded, or loaded
\* again when a commit of this pass has expired it
SchedulerCheck ==
    \E p \in Processes :
        /\ scheduler[p].pc = "checking"
        /\ LET thread == scheduler[p]
               key == Tasks[thread.task]
               seen == [thread EXCEPT
                          !.last_run = IF thread.expired THEN settings.last_run ELSE @,
                          !.expired = FALSE]
           IN  scheduler' = [scheduler EXCEPT ![p] =
                  IF should_run(key, settings.enabled[key], settings.execution_time[key],
                                seen.last_run, seen.at)
                  THEN [seen EXCEPT !.pc = "executing"]
                  ELSE NextTask(seen)]
        /\ UNCHANGED <<study_plan, daily_schedule, database, response, in_flight,
                       other_days, clock, settings, queue, adjustment, saving>>

\* execute_task, and the same steps for daily_plan: last_run of the loaded
\* row gets the task's now and is committed, then the jobs are enqueued
SchedulerExecute ==
    \E p \in Processes :
        /\ scheduler[p].pc = "executing"
        /\ LET thread == scheduler[p]
               key == Tasks[thread.task]
               stamped == [t \in DOMAIN thread.last_run \cup {key} |->
                              IF t = key THEN thread.at ELSE thread.last_run[t]]
           IN  /\ settings' = [settings EXCEPT !.last_run = stamped]
               /\ queue' = queue \o EnqueuedJobs(key)
               /\ scheduler' = [scheduler EXCEPT ![p] =
                      NextTask([thread EXCEPT !.last_run = stamped, !.expired = TRUE])]
        /\ UNCHANGED <<study_plan, daily_schedule, database, response, in_flight,
                       other_days, clock, adjustment, saving>>

\* time passes: a thread whose sleep is over runs first, and a pass takes
\* at most MaxPassSeconds
Tick ==
    /\ clock + TickSeconds <= WatchEnd
    /\ \A p \in Processes :
          IF scheduler[p].pc = "sleeping"
          THEN scheduler[p].wake_at > clock
          ELSE clock - scheduler[p].at < MaxPassSeconds
    /\ clock' = clock + TickSeconds
    /\ UNCHANGED <<study_plan, daily_schedule, database, response, in_flight,
                   other_days, settings, queue, scheduler, adjustment, saving>>

\* how a run of the automated analysis ends in task_runner.py
RunOutcomes == {"report", "short report", "AI call error"}

\* run_task_in_subprocess for an automated analysis: the subprocess prints
\* the report, or raises, exits with status 1 and its error JSON is returned
run_task_in_subprocess(outcome) ==
    [raised |-> FALSE, value |-> IF outcome = "report" THEN "report" ELSE "error"]

\* the queue has performed the job: a return value finishes it, an exception
\* makes the queue enqueue it again while retries are left
Performed(job, run) ==
    IF ~run.raised
    THEN [job EXCEPT !.status = "finished", !.runs = @ + 1, !.result = run.value]
    ELSE IF job.retries_left > 0
    THEN [job EXCEPT !.retries_left = @ - 1, !.runs = @ + 1]
    ELSE [job EXCEPT !.status = "failed", !.runs = @ + 1]

\* the worker performs the first queued job of an automated analysis (the
\* jobs of the adjustment chain are followed in SpecAdjustment)
perform_job ==
    \E k \in 1..Len(queue), outcome \in RunOutcomes :
        /\ queue[k].status = "queued"
        /\ queue[k].func = "run_task_in_subprocess"
        /\ \A j \in 1..(k - 1) :
              ~(queue[j].status = "queued" /\ queue[j].func = "run_task_in_subprocess")
        /\ queue' = [queue EXCEPT ![k] = Performed(@, run_task_in_subprocess(outcome))]
        /\ UNCHANGED <<study_plan, daily_schedule, database, response, in_flight,
                       other_days, clock, settings, scheduler, adjustment, saving>>

\* the settings rows of the model: every task at 23:58; one task with a
\* time that is no time, one disabled, one without a time; no row
SettingsInputs ==
    {[DefaultSettings EXCEPT !.enabled = [t \in TaskKeys |-> TRUE],
                             !.execution_time = [t \in TaskKeys |-> "23:58"]],
     [DefaultSettings EXCEPT !.enabled = [t \in TaskKeys |-> t # "data_analysis"],
                             !.execution_time = [t \in TaskKeys |->
                                 IF t = "daily_plan" THEN "" ELSE "25:00"]],
     [DefaultSettings EXCEPT !.row = FALSE]}

InitAutomation ==
    /\ study_plan = NoRow("goals")
    /\ daily_schedule = NoRow("schedule_items")
    /\ database = [f \in DatabaseFolders |-> <<>>]
    /\ response = NoResponse
    /\ in_flight = NotInFlight
    /\ other_days = NoRows
    /\ clock = WatchStart
    /\ settings \in SettingsInputs
    /\ queue = <<>>
    /\ scheduler = [p \in Processes |-> Sleeping(WatchStart)]
    /\ adjustment = NoAdjustment
    /\ saving = [r \in Requests |-> NoRequest]

NextAutomation ==
    \/ SchedulerQuery
    \/ SchedulerCheck
    \/ SchedulerExecute
    \/ Tick
    \/ perform_job

\* the scheduler threads of the worker processes and the queue
SpecAutomation == InitAutomation /\ [][NextAutomation]_vars

\* the threads keep running and the clock keeps going
SpecAutomationFair == SpecAutomation /\ WF_vars(NextAutomation)

\* ------------------------------ save_daily_schedule, statement by statement
\* Each request has its own session on app_data.db. The sqlite3 driver begins
\* a transaction with the first INSERT or UPDATE of the session, not with a
\* SELECT: a query outside a transaction reads what is committed at that
\* moment. The transaction holds the write lock of the database file until
\* its COMMIT or ROLLBACK.

\* request bodies of the concurrent requests (all have the same duration, so
\* two lists of goals are equal exactly when their types are)
SavingItemInputs ==
    {it \in ScheduleItemInputs :
        it.start_time = "09:00" /\ it.end_time = "10:00"}

\* another session's transaction holds the write lock
LockedByOther(r) == \E o \in Requests \ {r} : saving[o].in_transaction

\* the statement the flush emits for the schedule: an INSERT for the added
\* object, an UPDATE of the loaded row only when the assigned schedule_items
\* differ from the loaded ones
ScheduleWrite(r) ==
    IF ~saving[r].schedule.row THEN "insert"
    ELSE IF saving[r].schedule_items # saving[r].schedule.value THEN "update"
    ELSE "none"

\* the statement the flush emits for the plan, likewise
PlanWrite(r) ==
    IF ~saving[r].plan.row THEN "insert"
    ELSE IF SynchronizedGoals(saving[r].schedule_items) # saving[r].plan.value
         THEN "update"
    ELSE "none"

\* IntegrityError: an INSERT meets a committed row of the same date
\* (schedule_date and plan_date are unique)
UniqueViolated(r) ==
    \/ saving[r].pc = "queried" /\ ScheduleWrite(r) = "insert" /\ daily_schedule.row
    \/ saving[r].pc = "synchronized" /\ PlanWrite(r) = "insert" /\ study_plan.row

\* the next flush of the request has a statement to emit
WritePending(r) ==
    \/ saving[r].pc = "queried" /\ ScheduleWrite(r) # "none"
    \/ saving[r].pc = "synchronized" /\ PlanWrite(r) # "none"

saving_frame ==
    <<database, response, in_flight, other_days, clock, settings, queue,
      scheduler, adjustment>>

\* session.query(DailySchedule).filter_by(schedule_date=...).first() of a
\* request that passed the validation
SaveQuerySchedule(r) ==
    /\ saving[r].pc \in {"none", "answered"}
    /\ \E schedule_items \in SeqsUpTo(SavingItemInputs, MaxItems) :
          /\ ~MockExamRefused(schedule_date, schedule_items)
          /\ saving' = [saving EXCEPT ![r] =
                           [pc |-> "queried", schedule_items |-> schedule_items,
                            schedule |-> daily_schedule, plan |-> NoRow("goals"),
                            in_transaction |-> FALSE, status |-> 0]]
    /\ UNCHANGED <<study_plan, daily_schedule, saving_frame>>

\* _synchronize_plan_from_schedule: its query of the plan first flushes the
\* schedule (which begins the transaction when there is a statement), then
\* reads the plan
SaveSynchronize(r) ==
    /\ saving[r].pc = "queried"
    /\ ScheduleWrite(r) # "none" => ~LockedByOther(r) /\ ~UniqueViolated(r)
    /\ saving' = [saving EXCEPT ![r].pc = "synchronized",
                                ![r].in_transaction = ScheduleWrite(r) # "none",
                                ![r].plan = study_plan]
    /\ UNCHANGED <<study_plan, daily_schedule, saving_frame>>

\* session.commit(): the plan is flushed, the transaction is committed
SaveCommit(r) ==
    /\ saving[r].pc = "synchronized"
    /\ (PlanWrite(r) # "none" /\ ~saving[r].in_transaction) =>
          ~LockedByOther(r) /\ ~UniqueViolated(r)
    /\ daily_schedule' = IF saving[r].in_transaction
                         THEN Row(saving[r].schedule_items)
                         ELSE daily_schedule
    /\ study_plan' = IF PlanWrite(r) # "none"
                     THEN Row(SynchronizedGoals(saving[r].schedule_items))
                     ELSE study_plan
    /\ saving' = [saving EXCEPT ![r].pc = "answered",
                                ![r].in_transaction = FALSE,
                                ![r].status = 200]
    /\ UNCHANGED saving_frame

\* except SQLAlchemyError: the statement of the flush fails with an
\* IntegrityError, or with an OperationalError when the wait for the write
\* lock times out; session.rollback(), status 500
SaveDatabaseError(r) ==
    /\ WritePending(r)
    /\ \/ UniqueViolated(r)
       \/ ~saving[r].in_transaction /\ LockedByOther(r)
    /\ saving' = [saving EXCEPT ![r].pc = "answered",
                                ![r].in_transaction = FALSE,
                                ![r].status = 500]
    /\ UNCHANGED <<study_plan, daily_schedule, saving_frame>>

NextSaving ==
    \E r \in Requests :
        \/ SaveQuerySchedule(r)
        \/ SaveSynchronize(r)
        \/ SaveCommit(r)
        \/ SaveDatabaseError(r)

\* save_daily_schedule requests of the same date on the threads of the server
SpecSaving == Init /\ [][NextSaving]_vars

\* ============================================================== properties
DashboardAnswered == response.op = "get_dashboard_data" /\ response.body.status = 200

DetailsAnswered == response.op = "get_training_details" /\ response.body.status = 200

GoalsProgress == response.body.goals_progress

\* C1: every percentage of a reconciliation response is an integer in
\* 0..100: each goal's percentage and the day's percentage of
\* get_dashboard_data, and progress.percentage of get_training_details.
C1_PercentagesInRange ==
    /\ DashboardAnswered =>
          /\ response.body.percentage \in 0..100
          /\ \A i \in 1..Len(GoalsProgress) : GoalsProgress[i].percentage \in 0..100
    /\ DetailsAnswered => response.body.progress.percentage \in 0..100

\* C1 witness: a goal answered beyond its positive target is reported at 100
C1_Witness ==
    /\ DashboardAnswered
    /\ \E i \in 1..Len(GoalsProgress) :
          /\ GoalsProgress[i].target_questions > 0
          /\ GoalsProgress[i].answered_questions > GoalsProgress[i].target_questions
          /\ GoalsProgress[i].percentage = 100

\* p is num/den rounded to the nearest integer (a tie goes to the even one)
IsRounded(p, num, den) ==
    /\ 2 * p * den >= 2 * num - den
    /\ 2 * p * den <= 2 * num + den
    /\ (2 * p * den = 2 * num - den \/ 2 * p * den = 2 * num + den) => p % 2 = 0

\* p = min(100, round(answered / target * 100)) for target > 0, 100 for
\* target = 0 < answered, 0 for target = 0 = answered
IsGoalPercentage(p, answered, target) ==
    /\ target > 0 /\ p < 100 => IsRounded(p, 100 * answered, target)
    /\ target > 0 /\ p >= 100 => p = 100 /\ 200 * answered >= 199 * target
    /\ target = 0 /\ answered > 0 => p = 100
    /\ target = 0 /\ answered = 0 => p = 0

\* C2: the percentage of a goal is min(100, round(answered/target*100)) when
\* target > 0, 100 when target = 0 < answered and 0 when both are 0, in the
\* response of get_dashboard_data and in that of get_training_details.
C2_GoalPercentageFormula ==
    /\ DashboardAnswered =>
          \A i \in 1..Len(GoalsProgress) :
              IsGoalPercentage(GoalsProgress[i].percentage,
                               GoalsProgress[i].answered_questions,
                               GoalsProgress[i].target_questions)
    /\ DetailsAnswered =>
          IsGoalPercentage(response.body.progress.percentage,
                           response.body.progress.answered_questions,
                           response.body.goal.target_questions)

\* C2 witness: a goal whose quotient is rounded up (2 of 3 is 67)
C2_Witness ==
    /\ DetailsAnswered
    /\ response.body.goal.target_questions = 3
    /\ response.body.progress.answered_questions = 2
    /\ response.body.progress.percentage = 67

\* the rows of the day, of all categories
AllRows == Flatten([i \in 1..Len(CATEGORY_TO_FOLDER) |-> database[CATEGORY_TO_FOLDER[i]]])

StoredGoals == Column(study_plan)

StoredTrainingItems == TrainingItems(Column(daily_schedule))

\* goal index g (from 0) is a review goal with an aligned training item
AlignedReviewGoal(g) ==
    /\ g \in 0..(Len(StoredGoals) - 1)
    /\ g < Len(StoredTrainingItems)
    /\ IsReviewType(StoredGoals[g + 1].type)

\* the half-open window [prev_review_end, this_review_start) of review goal g
WindowStart(g) ==
    LET earlier == {j \in 0..(g - 1) : IsReviewType(StoredGoals[j + 1].type)}
    IN  IF earlier = {} THEN 0
        ELSE LET j == CHOOSE j \in earlier : \A k \in earlier : k <= j
             IN  ParseHM(StoredTrainingItems[j + 1].end_time)

WindowEnd(g) == ParseHM(StoredTrainingItems[g + 1].start_time)

\* row r lies in the window of review goal g and passes its subject filter
InReviewWindow(r, g) ==
    LET t == ParseTimestamp(r.submission_time)
        subjects == SubjectsToReview(StoredTrainingItems[g + 1].details)
    IN  /\ t # ValueError
        /\ WindowStart(g) <= t /\ t < WindowEnd(g)
        /\ (subjects = {} \/ r.practice_type \in subjects)

\* C3 (as claimed): the target_questions get_training_details returns for an
\* aligned review goal is the sum of incorrect_answers + unanswered_questions
\* over all rows of the day in its window [prev_review_end, this_review_start)
\* that pass the subject filter.
C3_ReviewTargetIsWindowSum ==
    DetailsAnswered /\ AlignedReviewGoal(response.goal_id) =>
        response.body.goal.target_questions =
            SumSeq(AllRows, LAMBDA r : IF InReviewWindow(r, response.goal_id)
                                       THEN r.incorrect_answers + r.unanswered_questions
                                       ELSE 0)

\* a row of the day: its database and its id in that database
RowKey(r) == <<r.practice_type, r.id>>

\* the rows the code counts into the target of review goal g
CountedRows(g) ==
    {RowKey(r) : r \in
        {ReviewTarget(StoredGoals, StoredTrainingItems, g, database).counted[k] :
            k \in 1..Len(ReviewTarget(StoredGoals, StoredTrainingItems, g, database).counted)}}

\* C4 (as claimed): when get_dashboard_data has computed the targets of all
\* review goals of the day, no row is counted into the target of more than
\* one review goal.
C4_NoRowInTwoReviewTargets ==
    DashboardAnswered =>
        \A g1, g2 \in 0..(Len(StoredGoals) - 1) :
            g1 # g2 /\ AlignedReviewGoal(g1) /\ AlignedReviewGoal(g2) =>
                CountedRows(g1) \cap CountedRows(g2) = {}

\* C5: the day's percentage is computed from the capped sum: with
\* total_target the sum of the goals' targets and capped the sum of
\* min(answered, target), it is min(100, round(capped/total_target*100))
\* when total_target > 0.
C5_DayPercentageFromCappedSum ==
    DashboardAnswered =>
        LET capped == SumSeq(GoalsProgress,
                        LAMBDA g : IF g.answered_questions < g.target_questions
                                   THEN g.answered_questions ELSE g.target_questions)
            total_target == SumSeq(GoalsProgress, LAMBDA g : g.target_questions)
        IN  total_target > 0 =>
                /\ response.body.percentage \in 0..100
                /\ IsGoalPercentage(response.body.percentage, capped, total_target)

\* C5 witness: one goal answered beyond its target, another one unfinished,
\* and the day below 100
C5_Witness ==
    /\ DashboardAnswered
    /\ \E i, j \in 1..Len(GoalsProgress) :
          /\ GoalsProgress[i].answered_questions > GoalsProgress[i].target_questions
          /\ GoalsProgress[i].target_questions > 0
          /\ GoalsProgress[j].answered_questions < GoalsProgress[j].target_questions
    /\ response.body.percentage < 100
    /\ response.body.percentage > 0

\* C6 (as claimed): total_answered is the sum of answered_questions over
\* goals_progress and total_target the sum of target_questions over it.
C6_TotalsAreSumsOverGoals ==
    DashboardAnswered =>
        /\ response.body.total_answered =
              SumSeq(GoalsProgress, LAMBDA g : g.answered_questions)
        /\ response.body.total_target =
              SumSeq(GoalsProgress, LAMBDA g : g.target_questions)

\* C6 (amended): total_answered is the sum of questions_answered over all
\* rows of the day in the scanned category databases, attributed to a goal
\* or not; total_target is the sum of target_questions over goals_progress.
C6_TotalAnsweredIsDayTotal ==
    DashboardAnswered =>
        /\ response.body.total_answered =
              SumNat([k \in 1..Len(database[VERBAL_COMPREHENSION]) |->
                          database[VERBAL_COMPREHENSION][k].questions_answered])
              + SumNat([k \in 1..Len(database[QUANTITATIVE_RELATIONS]) |->
                          database[QUANTITATIVE_RELATIONS][k].questions_answered])
        /\ response.body.total_target =
              SumSeq(GoalsProgress, LAMBDA g : g.target_questions)

\* C6 witness: rows of both categories, the day's total above the sum over
\* the goals
C6_Witness ==
    /\ DashboardAnswered
    /\ database[VERBAL_COMPREHENSION] # <<>>
    /\ database[QUANTITATIVE_RELATIONS] # <<>>
    /\ Len(GoalsProgress) > 0
    /\ response.body.total_target > 0
    /\ response.body.total_answered >
          SumSeq(GoalsProgress, LAMBDA g : g.answered_questions)

C8_ReadersWriteNothing ==
    [][response'.op # "none" => UNCHANGED <<study_plan, daily_schedule, database>>]_vars

\* C8 witness: a dashboard response over a schedule stored out of start_time
\* order and a review goal whose returned target is not the stored one
C8_Witness ==
    /\ DashboardAnswered
    /\ Column(daily_schedule) # SortedItems(Column(daily_schedule))
    /\ \E i \in 1..Len(GoalsProgress) :
          GoalsProgress[i].target_questions # StoredGoals[i].target_questions
    /\ database[VERBAL_COMPREHENSION] # <<>>

\* sum of questions_answered over the rows of the type whose time lies in
\* the closed window from start_time:00 to end_time:59
ClosedWindowAnswered(type, item) ==
    SumSeq(AllRows,
           LAMBDA r : IF /\ r.practice_type = type
                         /\ ParseTimestamp(r.submission_time) # ValueError
                         /\ ParseHM(item.start_time) <= ParseTimestamp(r.submission_time)
                         /\ ParseTimestamp(r.submission_time) <= ParseHM(item.end_time) + 59
                      THEN r.questions_answered ELSE 0)

\* goal index g (from 0) is an ordinary goal with an aligned training item
AlignedOrdinaryGoal(g) ==
    /\ g \in 0..(Len(StoredGoals) - 1)
    /\ g < Len(StoredTrainingItems)
    /\ ~IsReviewType(StoredGoals[g + 1].type)

\* C9 (as claimed): the answered count of an ordinary goal with an aligned
\* training item is the sum of questions_answered over the rows of the
\* goal's type in the closed window start_time:00 .. end_time:59, in
\* get_dashboard_data and in get_training_details.
C9_AnsweredInClosedWindow ==
    /\ DashboardAnswered =>
          \A i \in 1..Len(GoalsProgress) :
              AlignedOrdinaryGoal(i - 1) =>
                  GoalsProgress[i].answered_questions =
                      ClosedWindowAnswered(StoredGoals[i].type, StoredTrainingItems[i])
    /\ DetailsAnswered /\ AlignedOrdinaryGoal(response.goal_id) =>
          response.body.progress.answered_questions =
              ClosedWindowAnswered(StoredGoals[response.goal_id + 1].type,
                                   StoredTrainingItems[response.goal_id + 1])

\* C10 (as claimed): for every goal index the dashboard reports the
\* target_questions and answered_questions that get_training_details
\* returns for that index over the same stored data.
C10_DashboardAndDetailsInSync ==
    DashboardAnswered =>
        \A i \in 1..Len(GoalsProgress) :
            LET details == get_training_details(StoredGoals, Column(daily_schedule),
                                                database, i - 1)
            IN  /\ details.status = 200
                /\ details.goal.target_questions = GoalsProgress[i].target_questions
                /\ details.progress.answered_questions = GoalsProgress[i].answered_questions

\* a stored schedule item has a start_time or end_time that is not HH:MM
StoredMalformedTime ==
    \E k \in 1..Len(Column(daily_schedule)) :
        \/ ParseHM(Column(daily_schedule)[k].start_time) = ValueError
        \/ ParseHM(Column(daily_schedule)[k].end_time) = ValueError

\* C11 (as claimed): a malformed start_time or end_time in a stored schedule
\* item never makes a reconciliation request fail: get_dashboard_data and
\* get_training_details still return a result, no error reaches the caller.
C11_MalformedTimeNeverFails ==
    StoredMalformedTime /\ response.op # "none" => response.body # Raised

\* goal index g (from 0) is a review goal without an aligned training item
UnalignedReviewGoal(g) ==
    /\ g \in 0..(Len(StoredGoals) - 1)
    /\ g >= Len(StoredTrainingItems)
    /\ IsReviewType(StoredGoals[g + 1].type)

\* C12 (as claimed): for a review goal without an aligned training item (its
\* index is beyond the training items, or the date has no schedule) the
\* target_questions get_training_details and get_dashboard_data report is 0,
\* not the stored value.
C12_UnalignedReviewTargetIsZero ==
    /\ DetailsAnswered /\ UnalignedReviewGoal(response.goal_id) =>
          response.body.goal.target_questions = 0
    /\ DashboardAnswered =>
          \A i \in 1..Len(GoalsProgress) :
              UnalignedReviewGoal(i - 1) => GoalsProgress[i].target_questions = 0

\* C13 (as claimed): get_training_details answers not-found, and never with
\* some goal's data, when the date has no plan, the plan has no goals, or
\* goal_id is an integer outside 0..len(goals)-1.
C13_NotFoundOutsideRange ==
    /\ response.op = "get_training_details"
    /\ response.goal_id \notin 0..(Len(StoredGoals) - 1)
    => response.body.status = 404

\* C17: when the day has fewer training items than goals, get_dashboard_data
\* reports every goal whose index is beyond the training items with
\* answered_questions 0, percentage 0 and no time window (start_time and
\* end_time null or absent), whatever rows exist; with a plan and no schedule
\* this holds for every goal.
C17_UnalignedGoalsReportZero ==
    DashboardAnswered =>
        \A i \in 1..Len(GoalsProgress) :
            i - 1 >= Len(StoredTrainingItems) =>
                /\ GoalsProgress[i].answered_questions = 0
                /\ GoalsProgress[i].percentage = 0
                /\ GoalsProgress[i].start_time \in {None, Absent}
                /\ GoalsProgress[i].end_time \in {None, Absent}

\* C17 witness: two goals of one type over one training item, a row of that
\* type counted for the aligned goal and not for the goal beyond the items
C17_Witness ==
    /\ DashboardAnswered
    /\ Len(StoredTrainingItems) = 1
    /\ Len(GoalsProgress) = 2
    /\ GoalsProgress[1].type = GoalsProgress[2].type
    /\ GoalsProgress[1].answered_questions > 0
    /\ GoalsProgress[2].answered_questions = 0
    /\ GoalsProgress[2].start_time = None

\* the submission_time of the row is accepted by one of the two formats
Parsable(r) == ParseTimestamp(r.submission_time) # ValueError

\* the databases of the day without the rows whose time cannot be parsed
ParsableRows == [f \in Folders |-> SelectSeq(database[f], Parsable)]

\* C14 (as claimed): a row whose submission_time neither format parses is
\* skipped and contributes to none of the reported sums: every response is
\* the one computed without the row, the day's total_answered included.
C14_UnparsableRowInNoSum ==
    /\ DashboardAnswered =>
          response.body = get_dashboard_data(StoredGoals, Column(daily_schedule),
                                             ParsableRows)
    /\ DetailsAnswered =>
          response.body = get_training_details(StoredGoals, Column(daily_schedule),
                                               ParsableRows, response.goal_id)

\* C14 (amended): a row whose submission_time neither format parses is
\* skipped without aborting and contributes to no goal's answered_questions
\* and to no review target (so not to total_target, nor to the day's
\* percentage when total_target > 0); it is still counted in the day's
\* total_answered, the sum of questions_answered over all rows of the day.
C14_UnparsableRowInNoGoalSum ==
    /\ DashboardAnswered =>
          LET without == get_dashboard_data(StoredGoals, Column(daily_schedule),
                                            ParsableRows)
          IN  /\ without.status = 200
              /\ GoalsProgress = without.goals_progress
              /\ response.body.total_target = without.total_target
              /\ response.body.total_target > 0 =>
                     response.body.percentage = without.percentage
              /\ response.body.total_answered =
                     SumSeq(AllRows, LAMBDA r : r.questions_answered)
    /\ DetailsAnswered =>
          response.body = get_training_details(StoredGoals, Column(daily_schedule),
                                               ParsableRows, response.goal_id)

\* C14 witness: a row with an unparsable time beside a counted row of the
\* same type, under a goal of that type and a review goal
C14_Witness ==
    /\ DashboardAnswered
    /\ \E k \in 1..Len(AllRows) : ~Parsable(AllRows[k])
    /\ \E i \in 1..Len(GoalsProgress) :
          /\ AlignedOrdinaryGoal(i - 1)
          /\ GoalsProgress[i].answered_questions > 0
          /\ \E k \in 1..Len(AllRows) :
                ~Parsable(AllRows[k]) /\ AllRows[k].practice_type = GoalsProgress[i].type
    /\ \E i \in 1..Len(GoalsProgress) : AlignedReviewGoal(i - 1)
    /\ response.body.total_answered >
          SumSeq(GoalsProgress, LAMBDA g : g.answered_questions)

\* the databases of the day with every parsable submission_time rewritten
\* as YYYY-MM-DD HH:MM:SS
NormalizedRows ==
    [f \in Folders |->
        [k \in 1..Len(database[f]) |->
            IF Parsable(database[f][k])
            THEN [database[f][k] EXCEPT !.submission_time =
                     FormatTimestamp(ParseTimestamp(database[f][k].submission_time))]
            ELSE database[f][k]]]

\* C18 (as claimed): attribution is independent of the timestamp format: the
\* responses over rows written with '.' separators or without seconds are
\* the responses over the same rows written as YYYY-MM-DD HH:MM:SS.
C18_FormatIndependent ==
    /\ DashboardAnswered =>
          response.body = get_dashboard_data(StoredGoals, Column(daily_schedule),
                                             NormalizedRows)
    /\ DetailsAnswered =>
          response.body = get_training_details(StoredGoals, Column(daily_schedule),
                                               NormalizedRows, response.goal_id)

\* C15 (as claimed): after any sequence of get_daily_schedule,
\* save_daily_schedule and run_save_schedule_and_notify the stored plan has
\* as many goals as the stored schedule has training items (by the
\* reconciler's filter), and goals[i] is the goal derived from the i-th
\* training item in start_time order.
C15_GoalsAlignedToTrainingItems ==
    daily_schedule.row =>
        /\ Len(StoredGoals) = Len(StoredTrainingItems)
        /\ \A i \in 1..Len(StoredGoals) :
              i <= Len(StoredTrainingItems) =>
                  StoredGoals[i].type \in
                      {TrainingType(StoredTrainingItems[i].activity),
                       ActivityPrefix(StoredTrainingItems[i].activity)}

\* C16 (as claimed): the training items the reconciler aligns goals to are
\* the schedule items whose activity or details has a training keyword, in
\* start_time order, the rule goals are generated by.
C16_SelectionByActivityOrDetails ==
    StoredTrainingItems =
        SelectSeq(SortedItems(Column(daily_schedule)),
                  LAMBDA it : HasTrainingKeyword(it.activity) \/ HasTrainingKeyword(it.details))

\* the item schedules a mock exam
MockExamItem(item) == TrainingType(item.activity) = MOCK_EXAM

\* C20 (as claimed): on a Monday-Friday date no stored schedule has a mock
\* exam item and no stored plan has a goal of the mock exam category.
C20_NoWeekdayMockExam ==
    PyWeekday(schedule_date) < 5 =>
        /\ \A k \in 1..Len(Column(daily_schedule)) :
              ~MockExamItem(Column(daily_schedule)[k])
        /\ \A i \in 1..Len(StoredGoals) : StoredGoals[i].type # MOCK_EXAM

\* C19 (as claimed): the result of a get_dashboard_data that runs while a
\* writer commits is the result computed entirely from the plan and schedule
\* as they were when it loaded them, or entirely from those stored when it
\* returns, never a mix.
C19_ResultFromOneSnapshot ==
    [][in_flight.loaded /\ ~in_flight'.loaded =>
          response'.body \in
              {get_dashboard_data(in_flight.plan, in_flight.schedule, database),
               get_dashboard_data(Column(study_plan), Column(daily_schedule), database)}]_vars

\* the save of an adjustment result: the step from "finished" to "saved"
SaveStep == adjustment.pc = "finished" /\ adjustment'.pc = "saved"

TablesUnchanged == UNCHANGED <<study_plan, daily_schedule, other_days>>

\* a date key of the result is not a date
BadDateKey(ai_result) ==
    \E d \in DOMAIN ai_result.updated_schedules \cup DOMAIN ai_result.updated_goals :
        ~IsDate(d)

\* a Monday-Friday date of the result has a mock exam item
WeekdayMockExam(ai_result) ==
    \E d \in DOMAIN ai_result.updated_schedules :
        /\ IsDate(d)
        /\ PyWeekday(d) < 5
        /\ \E k \in 1..Len(ai_result.updated_schedules[d]) :
              MockExamItem(ai_result.updated_schedules[d][k])

\* C21 (as claimed): run_save_schedule_and_notify is all-or-nothing over the
\* dates of one AI result: with an error in the result, a date key that is
\* not a date, a mock exam on a weekday or a failed commit no schedule and no
\* plan of any date changes; otherwise the schedules and plans of all dates
\* of the result are the new ones.
C21_SaveIsAllOrNothing ==
    [][SaveStep /\ adjustment.result.kind = "ai_result" =>
          LET r == adjustment.result.ai_result
          IN  IF \/ r.error
                 \/ BadDateKey(r)
                 \/ WeekdayMockExam(r)
                 \/ adjustment'.saved = "error"
              THEN TablesUnchanged
              ELSE \A d \in DateKeys :
                      /\ d \in DOMAIN r.updated_schedules =>
                            ScheduleOf(d)' = Row(r.updated_schedules[d])
                      /\ d \in DOMAIN r.updated_goals =>
                            PlanOf(d)' = Row(r.updated_goals[d])]_vars

\* C25: the loop around the AI call makes at most 3 HTTP attempts and none
\* after a successful one; after 3 failed attempts a manual run returns an
\* error value and an automated run raises; a response is parsed only after
\* a successful attempt.
C25_AtMostThreeAttempts ==
    /\ [](/\ adjustment.attempt <= 3
          /\ (adjustment.parsed => adjustment.succeeded)
          /\ (adjustment.pc = "finished" /\ adjustment.attempt > 0 /\ ~adjustment.succeeded =>
                 /\ adjustment.attempt = 3
                 /\ ~adjustment.parsed
                 /\ IF adjustment.is_automated
                    THEN adjustment.outcome = "raised"
                    ELSE /\ adjustment.outcome = "returned"
                         /\ adjustment.result = Packaged(ErrorValue)))
    /\ [][adjustment.succeeded /\ adjustment'.succeeded =>
             adjustment'.attempt = adjustment.attempt]_vars

\* three attempts have failed in an automated run
C25_Witness ==
    /\ adjustment.pc = "finished"
    /\ adjustment.is_automated
    /\ adjustment.attempt = 3
    /\ ~adjustment.succeeded
    /\ adjustment.outcome = "raised"

\* the adjustment job returned an error value
ErrorResult(result) ==
    IF result.kind = "ai_result" THEN result.ai_result.error ELSE TRUE

\* C26: schedules and plans change only in the save that follows a finished
\* adjustment whose result holds an ai_result without an error; after an
\* adjustment that returned an error value the save returns an error and
\* changes no schedule and no plan.
C26_SavedOnlyAfterGoodAdjustment ==
    /\ [][~TablesUnchanged =>
             /\ SaveStep
             /\ ~ErrorResult(adjustment.result)
             /\ adjustment'.saved = "saved"]_vars
    /\ [][SaveStep /\ ErrorResult(adjustment.result) =>
             adjustment'.saved = "error" /\ TablesUnchanged]_vars

\* the save job has refused an error value that carries schedules
C26_Witness ==
    /\ adjustment.pc = "saved"
    /\ ~adjustment.is_automated
    /\ adjustment.saved = "error"
    /\ adjustment.result.kind = "ai_result"
    /\ adjustment.result.ai_result.error
    /\ adjustment.result.ai_result.updated_schedules # <<>>
    /\ ~daily_schedule.row

\* the positions in the queue of the enqueues of a task on a day (of a chain
\* the first job counts)
EnqueuesOf(task_key, day) ==
    {k \in 1..Len(queue) :
        /\ queue[k].task = task_key
        /\ queue[k].func # "save_adjusted_schedule_to_db"
        /\ DateOf(queue[k].enqueued_at) = day}

\* C22 (as claimed): each automated task is enqueued at most once per
\* calendar day, also with several worker processes running the scheduler
\* loop against the same settings row.
C22_EnqueuedOncePerDay ==
    \A t \in TaskKeys : Cardinality(EnqueuesOf(t, DateOf(clock))) <= 1

\* the task is enabled with an execution time that is a time
Schedulable(task_key) ==
    /\ settings.row
    /\ settings.enabled[task_key]
    /\ ParseHM(settings.execution_time[task_key]) # ValueError

\* C23 (as claimed): on a day on which a task is enabled with a valid
\* execution time and the scheduler loops keep running, the task is
\* eventually enqueued on that day, at or after its execution time.
C23_EnqueuedOnceTimeReached ==
    \A t \in TaskKeys :
        Schedulable(t) =>
            <>(\E k \in EnqueuesOf(t, DateOf(WatchStart)) :
                  queue[k].enqueued_at >= ParseHM(settings.execution_time[t]))

\* C24 (as claimed): an automated analysis run that fails (AI call error,
\* report too short) makes its job fail, so that the queue runs it again; a
\* job recorded as finished holds a report.
C24_FailedRunIsNotFinished ==
    \A k \in 1..Len(queue) :
        queue[k].func = "run_task_in_subprocess" /\ queue[k].status = "finished" =>
            queue[k].result = "report"

\* C27: get_daily_schedule writes only when the date has no schedule: it
\* then stores the default schedule and, only without a stored plan, the plan
\* generated from it; a stored schedule and a stored plan are kept as they
\* are, and the stored schedule is what is returned.
C27_DefaultOnlyWhenMissing ==
    [][response'.op = "get_daily_schedule" =>
          /\ UNCHANGED <<database, other_days>>
          /\ response'.body.schedule_items = daily_schedule'.value
          /\ IF daily_schedule.row
             THEN UNCHANGED <<daily_schedule, study_plan>>
             ELSE /\ daily_schedule' = Row(default_schedule_items)
                  /\ IF study_plan.row
                     THEN study_plan' = study_plan
                     ELSE study_plan' = Row(generated_goals(default_schedule_items))]_vars

\* the default schedule was created for a date that had a plan of its own
C27_Witness ==
    /\ response.op = "get_daily_schedule"
    /\ daily_schedule = Row(default_schedule_items)
    /\ study_plan.row
    /\ study_plan.value # generated_goals(default_schedule_items)

\* C28 (as claimed): every record saved for the date, whatever its practice
\* type, is among the records get_todays_full_records returns for the date.
C28_EverySavedRecordIsRead ==
    \A f \in DOMAIN database : \A k \in 1..Len(database[f]) :
        \E j \in 1..Len(get_todays_full_records(database)) :
            get_todays_full_records(database)[j] = database[f][k]

\* C29: within one day a record's questions_answered is attributed to at
\* most one goal, so the sum of answered_questions over goals_progress never
\* exceeds the total questions_answered of the day's records.
C29_RecordCountedForOneGoal ==
    DashboardAnswered =>
        SumSeq(GoalsProgress, LAMBDA g : g.answered_questions)
            <= total_answered_today(database)

\* the stored plan is the one synchronized from the stored schedule's items
PlanFromStoredSchedule ==
    daily_schedule.row =>
        /\ study_plan.row
        /\ study_plan.value = SynchronizedGoals(daily_schedule.value)

\* C30: under concurrent save_daily_schedule requests of the same date the
\* stored schedule and the stored plan always come from the same request
\* (the plan is the one synchronized from the stored schedule's items), an
\* INSERT never commits a second row of the date, and a request that loses a
\* conflict answers with a database error and writes nothing.
C30_ScheduleAndPlanFromOneRequest ==
    /\ []PlanFromStoredSchedule
    /\ [][\A r \in Requests :
            /\ (saving[r].status = 0 /\ saving'[r].status = 200
                  /\ saving[r].in_transaction /\ ~saving[r].schedule.row)
                 => ~daily_schedule.row
            /\ (saving[r].status = 0 /\ saving'[r].status = 500)
                 => /\ WritePending(r)
                    /\ UNCHANGED <<daily_schedule, study_plan>>]_vars

====
